---- MODULE Spec2Model ----
(***************************************************************************)
(* A model of the MPI teaching programs of the repository:                 *)
(*   timing    MPI_Timing_Max.c          barrier, Wtime, reduce(MAX)       *)
(*   sum       MPI_Parallel_Sum_Course.c bcast, cyclic loop, reduce(SUM),  *)
(*                                       reduce(MAX)                       *)
(*   matvec    MPI_Matrix_Vector.c       bcast, bcast, scatter, gather     *)
(*   bstruct   MPI_Bcast_Struct_Course.c derived datatype, bcast           *)
(* Each rank is a process with its own program counter and its own local   *)
(* memory.  Ranks share nothing; they interact only through the collective *)
(* calls, which MPI matches by the order in which each rank issues them.   *)
(* An action is one rank's run from the return of one collective call to   *)
(* its entry into the next one (or to the end of main), the local compute  *)
(* loop being an action of its own: the statements in between touch only   *)
(* the rank's own memory, and log records their order.                     *)
(* A double is modelled as an integer (the inputs drawn are integers and   *)
(* the sums stay small, so the arithmetic is exact).                       *)
(***************************************************************************)
EXTENDS Integers, Sequences, FiniteSets

\* ------------------------------------------------------------------ bounds
MaxProcs == 2
MaxTime == 2
MaxN == 5
MaxDim == 4
MaxVal == 1
MaxThreads == 3
\* The chunk size of schedule(dynamic, 1000) and schedule(guided, 1000),
\* scaled down with n.
ChunkSize == 2
\* The most calls of fscanf followed in one loop over a file.
MaxScans == 6

\* The content of a variable that was declared and never assigned.
Undef == 0 - 1

VARIABLES
    prog,    \* which program the ranks run
    csize,   \* the number of processes mpiexec started
    input,   \* stdin and the input files
    pc,      \* pc[r]: where rank r stands in main
    mem,     \* mem[r]: the local variables of rank r
    calls,   \* calls[r]: the collective calls rank r has issued, in order
    out,     \* out[r]: what rank r has printed or written, in order
    log      \* log[r]: the statements rank r has executed, in order

vars == <<prog, csize, input, pc, mem, calls, out, log>>

Ranks == 0 .. (csize - 1)
ProcCounts == 1 .. MaxProcs
Times == 0 .. MaxTime

\* ------------------------------------------------- the collective transport
\* A collective call as a rank issues it.  data is what the rank hands to the
\* library at the call: the send buffer (for the root of a broadcast or
\* scatter, for every rank of a gather or reduce), <<>> otherwise.
Call(op, root, count, data) ==
    [op |-> op, root |-> root, count |-> count, data |-> data]

\* Rank q has issued its k-th collective.
Entered(q, k) == Len(calls[q]) >= k

\* The rank is inside a collective: the index of that call, and the call.
CurK(r) == Len(calls[r])
CurCall(r) == calls[r][CurK(r)]

\* Every collective, the barrier too, returning once the root has entered.
CanReturn_RootOnly(r) == Entered(CurCall(r).root, CurK(r))

\* A barrier that returns at once, the other collectives as they are.
CanReturn_BarrierNoWait(r) ==
    LET k == CurK(r)
        c == CurCall(r)
    IN  CASE c.op = "bcast"   -> Entered(c.root, k)
          [] c.op = "scatter" -> Entered(c.root, k)
          [] c.op = "gather"  -> r # c.root \/ \A q \in Ranks : Entered(q, k)
          [] c.op = "reduce"  -> r # c.root \/ \A q \in Ranks : Entered(q, k)
          [] c.op = "barrier" -> TRUE

\* When the blocking call may return on rank r.  A broadcast or scatter
\* needs the root's data; the root of a gather or reduce needs every
\* rank's contribution; a barrier needs every rank.  A rank that only
\* sends (the root of a broadcast, a non-root of a gather or reduce) may
\* return as soon as its buffer is handed over.
CanReturn(r) ==
    LET k == CurK(r)
        c == CurCall(r)
    IN  CASE c.op = "bcast"   -> Entered(c.root, k)
          [] c.op = "scatter" -> Entered(c.root, k)
          [] c.op = "gather"  -> r # c.root \/ \A q \in Ranks : Entered(q, k)
          [] c.op = "reduce"  -> r # c.root \/ \A q \in Ranks : Entered(q, k)
          [] c.op = "barrier" -> \A q \in Ranks : Entered(q, k)

\* The call with the caller's own rank passed as the root.
Enter_RootIsRank(r, c, next) ==
    /\ calls' = [calls EXCEPT ![r] = Append(@, [c EXCEPT !.root = r])]
    /\ pc' = [pc EXCEPT ![r] = next]

Enter(r, c, next) ==
    /\ calls' = [calls EXCEPT ![r] = Append(@, c)]
    /\ pc' = [pc EXCEPT ![r] = next]

\* Rank r executes the statements ss, in this order.
Does(r, ss) == log' = [log EXCEPT ![r] = @ \o ss]

Emit(r, what, val) ==
    out' = [out EXCEPT ![r] = Append(@, [what |-> what, val |-> val])]

\* What the root handed to the k-th collective.
RootData(r) == calls[CurCall(r).root][CurK(r)].data

\* MPI_Bcast: the first count elements of the root's buffer.
BcastRecv(r) == SubSeq(RootData(r), 1, CurCall(r).count)

\* A scatter that hands every rank the first block.
ScatterRecv_FirstBlock(r) ==
    LET cnt == CurCall(r).count
    IN  [i \in 1 .. cnt |-> RootData(r)[i]]

\* MPI_Scatter: block r of recvcount elements of the root's send buffer.
ScatterRecv(r) ==
    LET cnt == CurCall(r).count
    IN  [i \in 1 .. cnt |-> RootData(r)[r * cnt + i]]

\* A gather that stores the blocks in the reverse of the rank order.
GatherRecv_Reversed(r, old) ==
    LET cnt == CurCall(r).count
        k   == CurK(r)
    IN  [i \in 1 .. Len(old) |->
            IF i <= csize * cnt
            THEN calls[csize - 1 - ((i - 1) \div cnt)][k].data[((i - 1) % cnt) + 1]
            ELSE old[i]]

\* MPI_Gather at the root: block q of the receive buffer is what rank q
\* sent; the rest of the buffer keeps what it held.
GatherRecv(r, old) ==
    LET cnt == CurCall(r).count
        k   == CurK(r)
    IN  [i \in 1 .. Len(old) |->
            IF i <= csize * cnt
            THEN calls[(i - 1) \div cnt][k].data[((i - 1) % cnt) + 1]
            ELSE old[i]]

\* A reduction that keeps the last contribution instead of adding it.
OpSum_Overwrite(a, b) == b

OpSum(a, b) == a + b
\* The comparison of MPI_MAX turned around: the smaller value is kept.
OpMax_Smaller(a, b) == IF a <= b THEN a ELSE b

OpMax(a, b) == IF a >= b THEN a ELSE b
Combine(op, a, b) == IF op = "MPI_MAX" THEN OpMax(a, b) ELSE OpSum(a, b)

\* The root's own value taken in the place of every rank's contribution.
Contribs_RootOnly(k) == [i \in 1 .. csize |-> calls[0][k].data[1]]

\* The values the ranks handed to the k-th collective, in rank order.
Contribs(k) == [i \in 1 .. csize |-> calls[i - 1][k].data[1]]

\* d[1] op d[2] op ... op d[q], combined from the left.
RECURSIVE Fold(_, _, _)
Fold(op, d, q) ==
    IF q = 1 THEN d[1] ELSE Combine(op, Fold(op, d, q - 1), d[q])

\* MPI_Reduce at the root: the contributions of all ranks combined.
ReduceRecv(r, op) == Fold(op, Contribs(CurK(r)), csize)

\* ---------------------------------------------------------------- timing
\* MPI_Wtime: wall-clock seconds; a later reading on the same process is
\* never smaller than an earlier one.
WtimeAfter(t) == { u \in Times : u >= t }

TimingLocals ==
    [local_start |-> Undef, local_finish |-> Undef,
     local_elapsed |-> Undef, elapsed |-> Undef]

\* MPI_Init, MPI_Comm_rank, MPI_Comm_size, and the call of MPI_Barrier.
T_Barrier(r) ==
    /\ prog = "timing" /\ pc[r] = "init"
    /\ Enter(r, Call("barrier", 0, 0, <<>>), "t_in_barrier")
    /\ Does(r, <<"MPI_Init", "MPI_Barrier">>)
    /\ UNCHANGED <<prog, csize, input, mem, out>>

\* The barrier returns; start timestamp, workload, stop timestamp, the
\* local print, and the call of MPI_Reduce(MPI_MAX).
T_Measure(r) ==
    /\ prog = "timing" /\ pc[r] = "t_in_barrier"
    /\ CanReturn(r)
    /\ \E t0 \in WtimeAfter(0) : \E t1 \in WtimeAfter(t0) :
          /\ mem' = [mem EXCEPT ![r].local_start = t0,
                                ![r].local_finish = t1,
                                ![r].local_elapsed = t1 - t0]
          /\ Emit(r, "local", <<t1 - t0>>)
          /\ Enter(r, Call("reduce", 0, 1, <<t1 - t0>>), "t_in_reduce")
    /\ Does(r, <<"local_start", "workload", "local_finish", "MPI_Reduce">>)
    /\ UNCHANGED <<prog, csize, input>>

\* The report placed outside the test of the rank: every rank prints its
\* variable elapsed.
T_Report_EveryRank(r) ==
    /\ prog = "timing" /\ pc[r] = "t_in_reduce"
    /\ CanReturn(r)
    /\ LET e == IF r = 0 THEN ReduceRecv(r, "MPI_MAX") ELSE mem[r].elapsed
       IN  /\ mem' = [mem EXCEPT ![r].elapsed = e]
           /\ Emit(r, "max", <<e>>)
           /\ Does(r, <<"report", "MPI_Finalize">>)
    /\ pc' = [pc EXCEPT ![r] = "done"]
    /\ UNCHANGED <<prog, csize, input, calls>>

\* The reduce returns; rank 0 prints the maximum; MPI_Finalize.
T_Report(r) ==
    /\ prog = "timing" /\ pc[r] = "t_in_reduce"
    /\ CanReturn(r)
    /\ IF r = 0
       THEN LET e == ReduceRecv(r, "MPI_MAX")
            IN  /\ mem' = [mem EXCEPT ![r].elapsed = e]
                /\ Emit(r, "max", <<e>>)
                /\ Does(r, <<"report", "MPI_Finalize">>)
       ELSE /\ UNCHANGED <<mem, out>>
            /\ Does(r, <<"MPI_Finalize">>)
    /\ pc' = [pc EXCEPT ![r] = "done"]
    /\ UNCHANGED <<prog, csize, input, calls>>

InitRanks(p, locals) ==
    /\ prog = p
    /\ csize \in ProcCounts
    /\ pc = [r \in Ranks |-> "init"]
    /\ mem = [r \in Ranks |-> locals]
    /\ calls = [r \in Ranks |-> <<>>]
    /\ out = [r \in Ranks |-> <<>>]
    /\ log = [r \in Ranks |-> <<>>]

InitTiming ==
    /\ InitRanks("timing", TimingLocals)
    /\ input = <<>>

StepTiming(r) ==
    \/ T_Barrier(r)
    \/ T_Measure(r)
    \/ T_Report(r)

NextTiming == \E r \in Ranks : StepTiming(r)

SpecTiming == InitTiming /\ [][NextTiming]_vars

\* ------------------------------------------------------------ parallel sum
NInputs == 0 .. MaxN

SumLocals ==
    [n |-> Undef, sum |-> 0, i |-> Undef, step |-> Undef,
     start_time |-> Undef, tsum |-> Undef, end_time |-> Undef,
     duration |-> Undef, max_duration |-> Undef]

\* The loop with the bound excluded: while (i < n).
RECURSIVE SumLoop_Exclusive(_, _, _, _)
SumLoop_Exclusive(i, step, n, sum) ==
    IF i < n
    THEN SumLoop_Exclusive(i + step, step, n, sum + i)
    ELSE [i |-> i, sum |-> sum]

\* while (i <= n) { sum += i; i += step; }
RECURSIVE SumLoop(_, _, _, _)
SumLoop(i, step, n, sum) ==
    IF i <= n
    THEN SumLoop(i + step, step, n, sum + i)
    ELSE [i |-> i, sum |-> sum]

\* The input read outside the rank-0 branch.
S_Input_EveryRank(r) ==
    /\ prog = "sum" /\ pc[r] = "init"
    /\ mem' = [mem EXCEPT ![r].n = input.n]
    /\ pc' = [pc EXCEPT ![r] = "s_have_input"]
    /\ Does(r, <<"MPI_Init", "getInput">>)
    /\ UNCHANGED <<prog, csize, input, calls, out>>

\* Rank 0: MPI_Init, MPI_Comm_size, MPI_Comm_rank, n = getInput().
S_Input(r) ==
    /\ prog = "sum" /\ pc[r] = "init" /\ r = 0
    /\ mem' = [mem EXCEPT ![r].n = input.n]
    /\ pc' = [pc EXCEPT ![r] = "s_have_input"]
    /\ Does(r, <<"MPI_Init", "getInput">>)
    /\ UNCHANGED <<prog, csize, input, calls, out>>

\* The start timestamp taken before the call of MPI_Bcast.
S_Bcast_StampsFirst(r) ==
    /\ prog = "sum"
    /\ \/ r = 0 /\ pc[r] = "s_have_input" /\ Does(r, <<"start_time", "MPI_Bcast">>)
       \/ r # 0 /\ pc[r] = "init" /\ Does(r, <<"MPI_Init", "start_time", "MPI_Bcast">>)
    /\ \E t0 \in WtimeAfter(0) : mem' = [mem EXCEPT ![r].start_time = t0]
    /\ Enter(r, Call("bcast", 0, 1, IF r = 0 THEN <<mem[r].n>> ELSE <<>>),
             "s_in_bcast")
    /\ UNCHANGED <<prog, csize, input, out>>

\* The call of MPI_Bcast(&n, 1, MPI_DOUBLE, 0): rank 0 after its input,
\* every other rank straight after MPI_Init.
S_Bcast(r) ==
    /\ prog = "sum"
    /\ \/ r = 0 /\ pc[r] = "s_have_input" /\ Does(r, <<"MPI_Bcast">>)
       \/ r # 0 /\ pc[r] = "init" /\ Does(r, <<"MPI_Init", "MPI_Bcast">>)
    /\ Enter(r, Call("bcast", 0, 1, IF r = 0 THEN <<mem[r].n>> ELSE <<>>),
             "s_in_bcast")
    /\ UNCHANGED <<prog, csize, input, mem, out>>

\* The broadcast returns; start_time, and the cyclic loop.
S_Loop(r) ==
    /\ prog = "sum" /\ pc[r] = "s_in_bcast"
    /\ CanReturn(r)
    /\ LET n  == BcastRecv(r)[1]
           lp == SumLoop(r, csize, n, mem[r].sum)
       IN  \E t0 \in WtimeAfter(0) :
              mem' = [mem EXCEPT ![r].n = n,
                                 ![r].start_time = t0,
                                 ![r].step = csize,
                                 ![r].i = lp.i,
                                 ![r].sum = lp.sum]
    /\ pc' = [pc EXCEPT ![r] = "s_looped"]
    /\ Does(r, <<"start_time", "loop">>)
    /\ UNCHANGED <<prog, csize, input, calls, out>>

\* The end timestamp taken before the call of the sum reduce.
S_Reduce_StampsEnd(r) ==
    /\ prog = "sum" /\ pc[r] = "s_looped"
    /\ \E t1 \in WtimeAfter(mem[r].start_time) :
          mem' = [mem EXCEPT ![r].end_time = t1,
                             ![r].duration = t1 - mem[r].start_time]
    /\ Enter(r, Call("reduce", 0, 1, <<mem[r].sum>>), "s_in_sum")
    /\ Does(r, <<"end_time", "MPI_Reduce_SUM">>)
    /\ UNCHANGED <<prog, csize, input, out>>

\* The call of MPI_Reduce(&sum, &tsum, 1, MPI_DOUBLE, MPI_SUM, 0).
S_Reduce(r) ==
    /\ prog = "sum" /\ pc[r] = "s_looped"
    /\ Enter(r, Call("reduce", 0, 1, <<mem[r].sum>>), "s_in_sum")
    /\ Does(r, <<"MPI_Reduce_SUM">>)
    /\ UNCHANGED <<prog, csize, input, mem, out>>

\* MPI_Finalize moved up, before the end timestamp and the max reduce.
S_Time_AfterFinalize(r) ==
    /\ prog = "sum" /\ pc[r] = "s_in_sum"
    /\ CanReturn(r)
    /\ \E t1 \in WtimeAfter(mem[r].start_time) :
          LET d == t1 - mem[r].start_time
          IN  /\ mem' = [mem EXCEPT
                            ![r].tsum = IF r = 0 THEN ReduceRecv(r, "MPI_SUM") ELSE @,
                            ![r].end_time = t1,
                            ![r].duration = d]
              /\ Enter(r, Call("reduce", 0, 1, <<d>>), "s_in_max")
    /\ Does(r, <<"MPI_Finalize", "end_time", "MPI_Reduce_MAX">>)
    /\ UNCHANGED <<prog, csize, input, out>>

\* The sum reduce returns; end_time, duration, and the call of
\* MPI_Reduce(&duration, &max_duration, 1, MPI_DOUBLE, MPI_MAX, 0).
S_Time(r) ==
    /\ prog = "sum" /\ pc[r] = "s_in_sum"
    /\ CanReturn(r)
    /\ \E t1 \in WtimeAfter(mem[r].start_time) :
          LET d == t1 - mem[r].start_time
          IN  /\ mem' = [mem EXCEPT
                            ![r].tsum = IF r = 0 THEN ReduceRecv(r, "MPI_SUM") ELSE @,
                            ![r].end_time = t1,
                            ![r].duration = d]
              /\ Enter(r, Call("reduce", 0, 1, <<d>>), "s_in_max")
    /\ Does(r, <<"end_time", "MPI_Reduce_MAX">>)
    /\ UNCHANGED <<prog, csize, input, out>>

\* The max reduce returns; rank 0 prints the sum and the time; MPI_Finalize.
S_Report(r) ==
    /\ prog = "sum" /\ pc[r] = "s_in_max"
    /\ CanReturn(r)
    /\ IF r = 0
       THEN LET m == ReduceRecv(r, "MPI_MAX")
            IN  /\ mem' = [mem EXCEPT ![r].max_duration = m]
                /\ out' = [out EXCEPT ![r] =
                      @ \o << [what |-> "sum", val |-> <<mem[r].n, mem[r].tsum>>],
                              [what |-> "max", val |-> <<m>>] >>]
                /\ Does(r, <<"report", "MPI_Finalize">>)
       ELSE /\ UNCHANGED <<mem, out>>
            /\ Does(r, <<"MPI_Finalize">>)
    /\ pc' = [pc EXCEPT ![r] = "done"]
    /\ UNCHANGED <<prog, csize, input, calls>>

InitSum ==
    /\ InitRanks("sum", SumLocals)
    /\ \E n \in NInputs : input = [n |-> n]

StepSum(r) ==
    \/ S_Input(r)
    \/ S_Bcast(r)
    \/ S_Loop(r)
    \/ S_Reduce(r)
    \/ S_Time(r)
    \/ S_Report(r)

NextSum == \E r \in Ranks : StepSum(r)

SpecSum == InitSum /\ [][NextSum]_vars

\* -------------------------------------------------------- struct broadcast
Vals == 0 .. MaxVal

\* typedef struct SData { int i1; double d1; double d2; } SData;
SDataFields == {"i1", "d1", "d2"}

\* MPI_Type_create_struct(3, lengths, offsets, types, &data_t): the type map,
\* one block per field, at the offset of that field in SData.
TypeMap == <<"i1", "d1", "d2">>
TypeFields == { TypeMap[k] : k \in 1 .. Len(TypeMap) }

\* One object of type data_t as MPI packs it from the struct at the root.
Pack(s) == [f \in TypeFields |-> s[f]]

\* A type map that leaves out the last field.
Unpack_TwoFields(s, m) == [f \in SDataFields |-> IF f = "d2" THEN s[f] ELSE m[f]]

\* The struct after MPI unpacks a received object into it.
Unpack(s, m) == [f \in SDataFields |-> IF f \in TypeFields THEN m[f] ELSE s[f]]

BStructLocals ==
    [data_t |-> "none",
     s |-> [f \in SDataFields |-> Undef]]

\* Rank 0: MPI_Init, the datatype is created and committed, and
\* scanf("%d %lf %lf", &s.i1, &s.d1, &s.d2).
B_Input(r) ==
    /\ prog = "bstruct" /\ pc[r] = "init" /\ r = 0
    /\ mem' = [mem EXCEPT ![r].data_t = "committed", ![r].s = input.s]
    /\ pc' = [pc EXCEPT ![r] = "b_have_input"]
    /\ Does(r, <<"MPI_Init", "MPI_Type_create_struct", "MPI_Type_commit", "scanf">>)
    /\ UNCHANGED <<prog, csize, input, calls, out>>

\* The broadcast placed inside the rank-0 branch: no other rank calls it.
B_Bcast_RootOnly(r) ==
    /\ prog = "bstruct"
    /\ r = 0 /\ pc[r] = "b_have_input"
    /\ Does(r, <<"MPI_Bcast">>)
    /\ Enter(r, Call("bcast", 0, 1, <<Pack(mem[r].s)>>), "b_in_bcast")
    /\ UNCHANGED <<prog, csize, input, mem, out>>

\* The broadcast called with the datatype created but not committed.
B_Bcast_Uncommitted(r) ==
    /\ prog = "bstruct"
    /\ \/ /\ r = 0 /\ pc[r] = "b_have_input"
          /\ Does(r, <<"MPI_Bcast">>)
          /\ UNCHANGED mem
       \/ /\ r # 0 /\ pc[r] = "init"
          /\ Does(r, <<"MPI_Init", "MPI_Type_create_struct", "MPI_Bcast">>)
          /\ mem' = [mem EXCEPT ![r].data_t = "created"]
    /\ Enter(r, Call("bcast", 0, 1, IF r = 0 THEN <<Pack(mem[r].s)>> ELSE <<>>),
             "b_in_bcast")
    /\ UNCHANGED <<prog, csize, input, out>>

\* The call of MPI_Bcast(&s, 1, data_t, 0).
B_Bcast(r) ==
    /\ prog = "bstruct"
    /\ \/ /\ r = 0 /\ pc[r] = "b_have_input"
          /\ Does(r, <<"MPI_Bcast">>)
          /\ UNCHANGED mem
       \/ /\ r # 0 /\ pc[r] = "init"
          /\ Does(r, <<"MPI_Init", "MPI_Type_create_struct", "MPI_Type_commit",
                       "MPI_Bcast">>)
          /\ mem' = [mem EXCEPT ![r].data_t = "committed"]
    /\ Enter(r, Call("bcast", 0, 1, IF r = 0 THEN <<Pack(mem[r].s)>> ELSE <<>>),
             "b_in_bcast")
    /\ UNCHANGED <<prog, csize, input, out>>

\* The broadcast returns; the rank prints s, frees the datatype; MPI_Finalize.
B_Print(r) ==
    /\ prog = "bstruct" /\ pc[r] = "b_in_bcast"
    /\ CanReturn(r)
    /\ LET s == Unpack(mem[r].s, BcastRecv(r)[1])
       IN  /\ mem' = [mem EXCEPT ![r].s = s, ![r].data_t = "freed"]
           /\ Emit(r, "data", <<s.i1, s.d1, s.d2>>)
    /\ pc' = [pc EXCEPT ![r] = "done"]
    /\ Does(r, <<"printf", "MPI_Type_free", "MPI_Finalize">>)
    /\ UNCHANGED <<prog, csize, input, calls>>

InitBStruct ==
    /\ InitRanks("bstruct", BStructLocals)
    /\ \E s \in [SDataFields -> Vals] : input = [s |-> s]

StepBStruct(r) ==
    \/ B_Input(r)
    \/ B_Bcast(r)
    \/ B_Print(r)

NextBStruct == \E r \in Ranks : StepBStruct(r)

SpecBStruct == InitBStruct /\ [][NextBStruct]_vars

\* ---------------------------------------------------------- matrix-vector
Dims == 0 .. MaxDim

\* The vector file: d numbers.
VecFiles == { [j \in 1 .. d |-> j * v] : d \in Dims, v \in 1 .. MaxVal }

\* The matrix file of a d x d matrix, row-major: the identity, the
\* matrices with a single 1, and the matrix of the numbers 1 .. d*d.
Row(i, d) == (i - 1) \div d
Col(i, d) == (i - 1) % d
MatFiles(d) ==
    { [i \in 1 .. d * d |-> IF Row(i, d) = Col(i, d) THEN 1 ELSE 0] }
    \cup { [i \in 1 .. d * d |-> IF i = e THEN 1 ELSE 0] : e \in 1 .. d * d }
    \cup { [i \in 1 .. d * d |-> i] }

\* A token of a file that is not a number.
BadToken == 0 - 2

\* while (fscanf(f, "%lf", &tmp) != EOF) dim++;  at a token that is not a
\* number fscanf returns 0 and consumes nothing, so the loop never ends.
HasBadToken(file) == \E i \in 1 .. Len(file) : file[i] = BadToken

\* int returnSize(char* fname): the number of values in the file (of a file
\* of numbers; on any other file the call does not return).
returnSize(file) == Len(file)

\* An allocation that sets every element to zero, as new double[n]() does.
NewArray_Zeroed(n) == [i \in 1 .. n |-> 0]

\* new double[n]: n elements, none assigned.
NewArray(n) == [i \in 1 .. n |-> Undef]

\* loadVec(fname, n), loadMat(fname, n): a new array of cap elements, the
\* values of the file stored from its start on, the elements the file has
\* no value for left unassigned (the files drawn hold at most cap values).
Load(file, cap) ==
    [i \in 1 .. cap |-> IF i <= Len(file) THEN file[i] ELSE Undef]
loadVec(file, n) == Load(file, n)
loadMat(file, n) == Load(file, n * n)

\* for (j = 0; j != dim; ++j) s += mat[i * dim + j] * vec[j];
\* the value of s after the iterations j = 0 .. upto-1 of local row i.
\* The loop with the row offset i * dim left out of the index.
RECURSIVE RowDot_NoRowOffset(_, _, _, _, _)
RowDot_NoRowOffset(mat, vec, dim, i, upto) ==
    IF upto = 0
    THEN 0
    ELSE RowDot_NoRowOffset(mat, vec, dim, i, upto - 1)
            + mat[(upto - 1) + 1] * vec[(upto - 1) + 1]

RECURSIVE RowDot(_, _, _, _, _)
RowDot(mat, vec, dim, i, upto) ==
    IF upto = 0
    THEN 0
    ELSE RowDot(mat, vec, dim, i, upto - 1)
            + mat[i * dim + (upto - 1) + 1] * vec[(upto - 1) + 1]

\* for (i = 0; i != to; ++i) lres[i] = s;
LocalProduct(mat, vec, dim, to) ==
    [i \in 1 .. to |-> RowDot(mat, vec, dim, i - 1, dim)]

\* logRes(fname, res, n) prints res[0] .. res[n-1]; an element that was
\* never assigned prints as whatever the memory holds.
Printed(res, n) ==
    { w \in [1 .. n -> Vals \cup { res[i] : i \in 1 .. n }] :
        \A i \in 1 .. n : IF res[i] = Undef THEN w[i] \in Vals ELSE w[i] = res[i] }

MatVecLocals ==
    [dim |-> Undef, vec |-> <<>>, tmat |-> <<>>, msize |-> Undef,
     mat |-> <<>>, to |-> Undef, lres |-> <<>>, res |-> <<>>]

\* Rank 0: MPI_Init, MPI_Comm_size, MPI_Comm_rank, dim = returnSize(vfname).
M_Size(r) ==
    /\ prog = "matvec" /\ pc[r] = "init" /\ r = 0
    /\ ~HasBadToken(input.vfile)
    /\ mem' = [mem EXCEPT ![r].dim = returnSize(input.vfile)]
    /\ pc' = [pc EXCEPT ![r] = "m_have_dim"]
    /\ Does(r, <<"MPI_Init", "returnSize">>)
    /\ UNCHANGED <<prog, csize, input, calls, out>>

\* The call of MPI_Bcast(&dim, 1, MPI_INT, 0).
M_BcastDim(r) ==
    /\ prog = "matvec"
    /\ \/ r = 0 /\ pc[r] = "m_have_dim" /\ Does(r, <<"MPI_Bcast_dim">>)
       \/ r # 0 /\ pc[r] = "init" /\ Does(r, <<"MPI_Init", "MPI_Bcast_dim">>)
    /\ Enter(r, Call("bcast", 0, 1, IF r = 0 THEN <<mem[r].dim>> ELSE <<>>),
             "m_in_bcast_dim")
    /\ UNCHANGED <<prog, csize, input, mem, out>>

\* The broadcast of dim returns; rank 0 loads the vector, the others
\* allocate it; the call of MPI_Bcast(vec, dim, MPI_DOUBLE, 0).
M_BcastVec(r) ==
    /\ prog = "matvec" /\ pc[r] = "m_in_bcast_dim"
    /\ CanReturn(r)
    /\ LET dim == BcastRecv(r)[1]
           vec == IF r = 0 THEN loadVec(input.vfile, dim) ELSE NewArray(dim)
       IN  /\ mem' = [mem EXCEPT ![r].dim = dim, ![r].vec = vec]
           /\ Enter(r, Call("bcast", 0, dim, IF r = 0 THEN vec ELSE <<>>),
                    "m_in_bcast_vec")
    /\ Does(r, <<IF r = 0 THEN "loadVec" ELSE "new_vec", "MPI_Bcast_vec">>)
    /\ UNCHANGED <<prog, csize, input, out>>

\* The broadcast of vec returns; rank 0 loads the matrix; msize and mat;
\* the call of MPI_Scatter(tmat, msize, MPI_DOUBLE, mat, msize, MPI_DOUBLE, 0).
M_Scatter(r) ==
    /\ prog = "matvec" /\ pc[r] = "m_in_bcast_vec"
    /\ CanReturn(r)
    /\ LET dim   == mem[r].dim
           tmat  == IF r = 0 THEN loadMat(input.mfile, dim) ELSE mem[r].tmat
           msize == (dim * dim) \div csize
       IN  /\ mem' = [mem EXCEPT ![r].vec = BcastRecv(r),
                                 ![r].tmat = tmat,
                                 ![r].msize = msize,
                                 ![r].mat = NewArray(msize)]
           /\ Enter(r, Call("scatter", 0, msize, IF r = 0 THEN tmat ELSE <<>>),
                    "m_in_scatter")
    /\ Does(r, IF r = 0 THEN <<"loadMat", "MPI_Scatter">> ELSE <<"MPI_Scatter">>)
    /\ UNCHANGED <<prog, csize, input, out>>

\* MPI_Gather called from inside the compute step.
M_Compute_CallsGather(r) ==
    /\ prog = "matvec" /\ pc[r] = "m_in_scatter"
    /\ CanReturn(r)
    /\ LET dim  == mem[r].dim
           mat  == ScatterRecv(r)
           to   == dim \div csize
           lres == LocalProduct(mat, mem[r].vec, dim, to)
       IN  /\ mem' = [mem EXCEPT ![r].mat = mat,
                                 ![r].to = to,
                                 ![r].lres = lres]
           /\ Enter(r, Call("gather", 0, to, lres), "m_computed")
    /\ Does(r, <<"compute">>)
    /\ UNCHANGED <<prog, csize, input, out>>

\* The scatter returns; the local rows times the vector.
M_Compute(r) ==
    /\ prog = "matvec" /\ pc[r] = "m_in_scatter"
    /\ CanReturn(r)
    /\ LET dim  == mem[r].dim
           mat  == ScatterRecv(r)
           to   == dim \div csize
           lres == LocalProduct(mat, mem[r].vec, dim, to)
       IN  mem' = [mem EXCEPT ![r].mat = mat,
                              ![r].to = to,
                              ![r].lres = lres]
    /\ pc' = [pc EXCEPT ![r] = "m_computed"]
    /\ Does(r, <<"compute">>)
    /\ UNCHANGED <<prog, csize, input, calls, out>>

\* res allocated with the size of one rank's block: new double[to].
M_Gather_ResOfBlockSize(r) ==
    /\ prog = "matvec" /\ pc[r] = "m_computed"
    /\ mem' = [mem EXCEPT ![r].res = IF r = 0 THEN NewArray(mem[r].to) ELSE @]
    /\ Enter(r, Call("gather", 0, mem[r].to, mem[r].lres), "m_in_gather")
    /\ Does(r, <<"MPI_Gather">>)
    /\ UNCHANGED <<prog, csize, input, out>>

\* Rank 0 allocates res; the call of
\* MPI_Gather(lres, to, MPI_DOUBLE, res, to, MPI_DOUBLE, 0).
M_Gather(r) ==
    /\ prog = "matvec" /\ pc[r] = "m_computed"
    /\ mem' = [mem EXCEPT ![r].res = IF r = 0 THEN NewArray(mem[r].dim) ELSE @]
    /\ Enter(r, Call("gather", 0, mem[r].to, mem[r].lres), "m_in_gather")
    /\ Does(r, <<"MPI_Gather">>)
    /\ UNCHANGED <<prog, csize, input, out>>

\* logRes called outside the test of the rank: every rank writes its res.
M_Log_EveryRank(r) ==
    /\ prog = "matvec" /\ pc[r] = "m_in_gather"
    /\ CanReturn(r)
    /\ LET res == IF r = 0 THEN GatherRecv(r, mem[r].res) ELSE mem[r].res
       IN  /\ mem' = [mem EXCEPT ![r].res = res]
           /\ \E w \in Printed(res, Len(res)) : Emit(r, "Result.txt", w)
           /\ Does(r, <<"logRes", "MPI_Finalize">>)
    /\ pc' = [pc EXCEPT ![r] = "done"]
    /\ UNCHANGED <<prog, csize, input, calls>>

\* The gather returns; rank 0 writes Result.txt; the buffers are freed;
\* MPI_Finalize.
M_Log(r) ==
    /\ prog = "matvec" /\ pc[r] = "m_in_gather"
    /\ CanReturn(r)
    /\ IF r = 0
       THEN LET res == GatherRecv(r, mem[r].res)
            IN  /\ mem' = [mem EXCEPT ![r].res = res]
                /\ \E w \in Printed(res, mem[r].dim) : Emit(r, "Result.txt", w)
                /\ Does(r, <<"logRes", "MPI_Finalize">>)
       ELSE /\ UNCHANGED <<mem, out>>
            /\ Does(r, <<"MPI_Finalize">>)
    /\ pc' = [pc EXCEPT ![r] = "done"]
    /\ UNCHANGED <<prog, csize, input, calls>>

InitMatVec ==
    /\ InitRanks("matvec", MatVecLocals)
    /\ \E v \in VecFiles : \E m \in MatFiles(Len(v)) :
          input = [vfile |-> v, mfile |-> m]

StepMatVec(r) ==
    \/ M_Size(r)
    \/ M_BcastDim(r)
    \/ M_BcastVec(r)
    \/ M_Scatter(r)
    \/ M_Compute(r)
    \/ M_Gather(r)
    \/ M_Log(r)

NextMatVec == \E r \in Ranks : StepMatVec(r)

SpecMatVec == InitMatVec /\ [][NextMatVec]_vars

\* returnSize that stops at the first token that is not a number and returns
\* the count so far.
M_SizeLoops_StopsAtToken(r) ==
    /\ prog = "matvec" /\ pc[r] = "init" /\ r = 0
    /\ HasBadToken(input.vfile)
    /\ mem' = [mem EXCEPT ![r].dim =
                  Cardinality({ i \in 1 .. Len(input.vfile) :
                                  \A j \in 1 .. i : input.vfile[j] # BadToken })]
    /\ pc' = [pc EXCEPT ![r] = "m_have_dim"]
    /\ Does(r, <<"MPI_Init", "returnSize">>)
    /\ UNCHANGED <<prog, csize, input, calls, out>>

\* Rank 0: MPI_Init, and the call of returnSize(vfname) on a file with a
\* token that is not a number: the rank stays in the loop of returnSize.
M_SizeLoops(r) ==
    /\ prog = "matvec" /\ pc[r] = "init" /\ r = 0
    /\ HasBadToken(input.vfile)
    /\ pc' = [pc EXCEPT ![r] = "m_in_returnSize"]
    /\ Does(r, <<"MPI_Init">>)
    /\ UNCHANGED <<prog, csize, input, mem, calls, out>>

\* Vector files with one token that is not a number.
BadVecFiles ==
    { [j \in 1 .. d |-> IF j = b THEN BadToken ELSE j] : d \in 1 .. MaxDim, b \in 1 .. MaxDim }

\* The matrix-vector program on any vector file, of numbers or not.
InitMatVecAnyFile ==
    /\ InitRanks("matvec", MatVecLocals)
    /\ \E v \in VecFiles \cup BadVecFiles : \E m \in MatFiles(Len(v)) :
          input = [vfile |-> v, mfile |-> m]

StepMatVecAnyFile(r) == StepMatVec(r) \/ M_SizeLoops(r)

NextMatVecAnyFile == \E r \in Ranks : StepMatVecAnyFile(r)

SpecMatVecAnyFile == InitMatVecAnyFile /\ [][NextMatVecAnyFile]_vars

\* A matrix file that ends early: fewer than dim * dim numbers.  loadMat
\* stores the numbers there are and leaves the rest of the array unassigned.
ShortMatFiles(d) ==
    { SubSeq(m, 1, n) : m \in MatFiles(d), n \in 0 .. (d * d - 1) }

InitMatVecShortFile ==
    /\ InitRanks("matvec", MatVecLocals)
    /\ \E v \in VecFiles : \E m \in ShortMatFiles(Len(v)) :
          input = [vfile |-> v, mfile |-> m]

SpecMatVecShortFile == InitMatVecShortFile /\ [][NextMatVec]_vars

\* ------------------------------------------- scatter / gather round trip
\* The scenario of the specification's testable properties: rank 0
\* scatters an array of N elements in blocks of N / P, and every rank hands
\* the block it received, unchanged, to a gather at rank 0.
Arrays ==
    UNION { [1 .. n -> Vals] : n \in Dims } \cup { [i \in 1 .. n |-> i] : n \in Dims }

RoundTripLocals == [recv |-> <<>>, back |-> <<>>]

R_Scatter(r) ==
    /\ prog = "roundtrip" /\ pc[r] = "init"
    /\ Enter(r, Call("scatter", 0, Len(input.array) \div csize,
                     IF r = 0 THEN input.array ELSE <<>>), "r_in_scatter")
    /\ Does(r, <<"MPI_Init", "MPI_Scatter">>)
    /\ UNCHANGED <<prog, csize, input, mem, out>>

R_Gather(r) ==
    /\ prog = "roundtrip" /\ pc[r] = "r_in_scatter"
    /\ CanReturn(r)
    /\ LET recv == ScatterRecv(r)
       IN  /\ mem' = [mem EXCEPT ![r].recv = recv,
                                 ![r].back = IF r = 0 THEN NewArray(Len(input.array))
                                                      ELSE @]
           /\ Enter(r, Call("gather", 0, Len(input.array) \div csize, recv),
                    "r_in_gather")
    /\ Does(r, <<"MPI_Gather">>)
    /\ UNCHANGED <<prog, csize, input, out>>

R_Finish(r) ==
    /\ prog = "roundtrip" /\ pc[r] = "r_in_gather"
    /\ CanReturn(r)
    /\ mem' = [mem EXCEPT ![r].back = IF r = 0 THEN GatherRecv(r, @) ELSE @]
    /\ pc' = [pc EXCEPT ![r] = "done"]
    /\ Does(r, <<"MPI_Finalize">>)
    /\ UNCHANGED <<prog, csize, input, calls, out>>

InitRoundTrip ==
    /\ InitRanks("roundtrip", RoundTripLocals)
    /\ \E a \in Arrays : input = [array |-> a]

StepRoundTrip(r) ==
    \/ R_Scatter(r)
    \/ R_Gather(r)
    \/ R_Finish(r)

NextRoundTrip == \E r \in Ranks : StepRoundTrip(r)

SpecRoundTrip == InitRoundTrip /\ [][NextRoundTrip]_vars

\* ------------------------------------------------------------ all programs
Init == InitTiming \/ InitSum \/ InitBStruct \/ InitMatVec

Next == NextTiming \/ NextSum \/ NextBStruct \/ NextMatVec

Spec == Init /\ [][Next]_vars

\* Each rank is a process of its own, which the operating system keeps
\* running: a rank that can take a step eventually takes one.
Step(r) == StepTiming(r) \/ StepSum(r) \/ StepBStruct(r) \/ StepMatVec(r)

Fairness == \A r \in 0 .. (MaxProcs - 1) : WF_vars(r \in Ranks /\ Step(r))

\* Whether a rank blocks does not depend on the values it computes with:
\* the runs checked for progress start from one input of each size.
InitOneInput ==
    /\ Init
    /\ prog = "sum" => input.n = MaxN
    /\ prog = "bstruct" => input.s = [f \in SDataFields |-> 1]
    /\ prog = "matvec" =>
          /\ input.vfile = [j \in 1 .. Len(input.vfile) |-> j]
          /\ input.mfile = [i \in 1 .. Len(input.mfile) |-> i]

FairSpec == InitOneInput /\ [][Next]_vars /\ Fairness

\* ---------------------------------------------------------- OpenMP barrier
\* An OpenMP program is one process: csize is the size of the team of the
\* parallel region, pc[t], mem[t] and log[t] belong to thread t (thread 0
\* is the master), and out[0] is the standard output of the process, which
\* the threads share.
TeamSizes == 1 .. MaxThreads

InitTeam(p, locals) ==
    /\ prog = p
    /\ csize \in TeamSizes
    /\ pc = [t \in Ranks |-> "init"]
    /\ mem = [t \in Ranks |-> locals]
    /\ calls = [t \in Ranks |-> <<>>]
    /\ out = [q \in {0} |-> <<>>]
    /\ log = [t \in Ranks |-> <<>>]

\* printf("Printf 1 of %d thread\n", omp_get_thread_num()); the thread then
\* stands at #pragma omp barrier.
OB_Printf1(t) ==
    /\ prog = "ompbarrier" /\ pc[t] = "init"
    /\ Emit(0, "Printf 1", <<t>>)
    /\ pc' = [pc EXCEPT ![t] = "b_at_barrier"]
    /\ Does(t, <<"Printf 1", "barrier">>)
    /\ UNCHANGED <<prog, csize, input, mem, calls>>

\* The second printf with the barrier directive left out.
OB_Printf2_NoBarrier(t) ==
    /\ prog = "ompbarrier" /\ pc[t] = "b_at_barrier"
    /\ Emit(0, "Printf 2", <<t>>)
    /\ pc' = [pc EXCEPT ![t] = "b_at_end"]
    /\ Does(t, <<"Printf 2">>)
    /\ UNCHANGED <<prog, csize, input, mem, calls>>

\* The barrier lets the thread go once every thread of the team has reached
\* it; printf("Printf 2 of %d thread\n", omp_get_thread_num()); the thread
\* then stands at the end of the parallel region.
OB_Printf2(t) ==
    /\ prog = "ompbarrier" /\ pc[t] = "b_at_barrier"
    /\ \A q \in Ranks : pc[q] # "init"
    /\ Emit(0, "Printf 2", <<t>>)
    /\ pc' = [pc EXCEPT ![t] = "b_at_end"]
    /\ Does(t, <<"Printf 2">>)
    /\ UNCHANGED <<prog, csize, input, mem, calls>>

\* The implicit barrier at the end of the region; the master returns 0.
OB_Return(t) ==
    /\ prog = "ompbarrier" /\ t = 0
    /\ \A q \in Ranks : pc[q] = "b_at_end"
    /\ pc' = [q \in Ranks |-> "done"]
    /\ Does(t, <<"return">>)
    /\ UNCHANGED <<prog, csize, input, mem, calls, out>>

InitOmpBarrier ==
    /\ InitTeam("ompbarrier", <<>>)
    /\ input = <<>>

StepOmpBarrier(t) ==
    \/ OB_Printf1(t)
    \/ OB_Printf2(t)
    \/ OB_Return(t)

NextOmpBarrier == \E t \in Ranks : StepOmpBarrier(t)

SpecOmpBarrier == InitOmpBarrier /\ [][NextOmpBarrier]_vars

\* -------------------------------------------------------- OpenMP summation
\* The parallel loops of each program, by their schedule clause, in the
\* order of the source: the schedule demonstration runs four, the parallel
\* sum one, which has no schedule clause.
Loops ==
    [ompsched |-> <<"static", "dynamic", "guided", "runtime">>,
     ompsum   |-> <<"default">>]

\* What OMP_SCHEDULE, or the default of the implementation, can select.
Kinds == {"static", "dynamic", "guided"}

\* The shared variables of the process are kept in mem at the index after
\* the last thread: sum, the next iteration the runtime has not handed out,
\* and the number k of the loop the master is at.
Shared == csize
SharedVars == [sum |-> Undef, next |-> 1, k |-> 1]

\* Thread t's private copy of sum, the iterations it has executed in the
\* current loop, and whether it has taken its block of a static schedule.
ThreadVars == [sum |-> Undef, iters |-> {}, took |-> FALSE]

\* The schedule of the loop the master is at.
Kind ==
    LET s == Loops[prog][mem[Shared].k]
    IN  IF s \in Kinds THEN s ELSE input.schedule

Min(a, b) == IF a <= b THEN a ELSE b
Max(a, b) == IF a >= b THEN a ELSE b
CeilDiv(a, b) == (a + b - 1) \div b

\* The iterations not handed out yet.
Remaining == input.n - mem[Shared].next + 1

\* A static schedule with blocks of n / T iterations, rounded down.
StaticBlock_RoundedDown(th) ==
    LET q == input.n \div csize
    IN  (th * q + 1) .. Min((th + 1) * q, input.n)

\* schedule(static): the iterations 1..n in blocks of ceil(n / T), block t
\* for thread t.
StaticBlock(th) ==
    LET q == CeilDiv(input.n, csize)
    IN  (th * q + 1) .. Min((th + 1) * q, input.n)

\* The size of the chunk the runtime hands out next: ChunkSize iterations
\* under dynamic, a share of what remains but not less than ChunkSize under
\* guided; never more than what remains.
ChunkLen ==
    IF Kind = "dynamic"
    THEN Min(ChunkSize, Remaining)
    ELSE Min(Max(ChunkSize, CeilDiv(Remaining, csize)), Remaining)

\* The chunk thread th gets when it asks for work.
NextChunk(th) ==
    IF Kind = "static"
    THEN StaticBlock(th)
    ELSE mem[Shared].next .. (mem[Shared].next + ChunkLen - 1)

\* Thread th can get work.
HasWork(th) ==
    IF Kind = "static" THEN ~mem[th].took ELSE Remaining > 0

\* The sum of the integers of the set S.
RECURSIVE SumOf(_)
SumOf(S) ==
    IF S = {} THEN 0
    ELSE LET x == CHOOSE y \in S : TRUE
         IN  x + SumOf(S \ {x})

\* The master: sum = 0.0; start = omp_get_wtime(); the parallel region opens
\* and every thread gets its private copy of sum, set to 0.
O_Fork(th) ==
    /\ prog \in DOMAIN Loops /\ th = 0
    /\ pc[th] \in {"init", "o_serial"}
    /\ mem' = [q \in 0 .. csize |->
                  IF q = Shared
                  THEN [mem[Shared] EXCEPT !.sum = 0, !.next = 1]
                  ELSE [sum |-> 0, iters |-> {}, took |-> FALSE]]
    /\ pc' = [q \in Ranks |-> "o_work"]
    /\ Does(th, <<"sum = 0.0", "omp_get_wtime", "parallel for">>)
    /\ UNCHANGED <<prog, csize, input, calls, out>>

\* The loop body adding to the shared sum, as without the reduction clause.
O_Chunk_NoReduction(th) ==
    /\ prog \in DOMAIN Loops /\ pc[th] = "o_work"
    /\ HasWork(th)
    /\ LET c == NextChunk(th)
       IN  mem' = [mem EXCEPT
                      ![th].iters = @ \cup c,
                      ![th].took = TRUE,
                      ![Shared].sum = @ + SumOf(c),
                      ![Shared].next = IF Kind = "static" THEN @ ELSE @ + ChunkLen]
    /\ UNCHANGED <<prog, csize, input, pc, calls, out, log>>

\* Thread th takes its next chunk and runs its iterations:
\* for each i of the chunk, sum += i on the private copy.
O_Chunk(th) ==
    /\ prog \in DOMAIN Loops /\ pc[th] = "o_work"
    /\ HasWork(th)
    /\ LET c == NextChunk(th)
       IN  mem' = [mem EXCEPT
                      ![th].iters = @ \cup c,
                      ![th].took = TRUE,
                      ![th].sum = @ + SumOf(c),
                      ![Shared].next = IF Kind = "static" THEN @ ELSE @ + ChunkLen]
    /\ UNCHANGED <<prog, csize, input, pc, calls, out, log>>

\* No work is left for thread th: the runtime adds its private copy to the
\* shared sum (one thread at a time), and the thread waits at the end of the
\* loop.
O_Combine(th) ==
    /\ prog \in DOMAIN Loops /\ pc[th] = "o_work"
    /\ ~HasWork(th)
    /\ mem' = [mem EXCEPT ![Shared].sum = @ + mem[th].sum]
    /\ pc' = [pc EXCEPT ![th] = "o_joined"]
    /\ UNCHANGED <<prog, csize, input, calls, out, log>>

\* Every thread has arrived at the end of the loop: the master takes the
\* time and prints sum, then goes on to the next loop or returns.
O_Join(th) ==
    /\ prog \in DOMAIN Loops /\ th = 0
    /\ \A q \in Ranks : pc[q] = "o_joined"
    /\ Emit(0, Loops[prog][mem[Shared].k], <<mem[Shared].sum>>)
    /\ IF mem[Shared].k < Len(Loops[prog])
       THEN /\ mem' = [mem EXCEPT ![Shared].k = @ + 1]
            /\ pc' = [q \in Ranks |-> IF q = 0 THEN "o_serial" ELSE "o_idle"]
            /\ Does(th, <<"omp_get_wtime", "printf">>)
       ELSE /\ mem' = mem
            /\ pc' = [q \in Ranks |-> "done"]
            /\ Does(th, <<"omp_get_wtime", "printf", "return">>)
    /\ UNCHANGED <<prog, csize, input, calls>>

\* n from the command line or the standard input, the number of threads
\* from the environment or from argv[1], the schedule OMP_SCHEDULE or
\* the implementation selects.
InitOmpSum ==
    /\ prog \in DOMAIN Loops
    /\ csize \in TeamSizes
    /\ \E n \in NInputs : \E s \in Kinds : input = [n |-> n, schedule |-> s]
    /\ pc = [th \in Ranks |-> "init"]
    /\ mem = [q \in 0 .. csize |-> IF q = Shared THEN SharedVars ELSE ThreadVars]
    /\ calls = [th \in Ranks |-> <<>>]
    /\ out = [q \in {0} |-> <<>>]
    /\ log = [th \in Ranks |-> <<>>]

StepOmpSum(th) ==
    \/ O_Fork(th)
    \/ O_Chunk(th)
    \/ O_Combine(th)
    \/ O_Join(th)

NextOmpSum == \E th \in Ranks : StepOmpSum(th)

SpecOmpSum == InitOmpSum /\ [][NextOmpSum]_vars

\* ------------------------------------------------------------ file loops
\* returnSize, loadVec and loadMat taken alone, one call of fscanf per step:
\* prog is the function called, input its arguments (the tokens of the file
\* and n), and mem[0] its variables: pos is the number of tokens fscanf has
\* consumed, dim the counter of returnSize, res and it the array and the
\* pointer (as an index into res) of the loaders, beyond the indices at or
\* after the end of res that were written, ret what returnSize returned.
Loaders == {"loadVec", "loadMat"}
Scanners == {"returnSize"} \cup Loaders

\* What fscanf returns at the end of the file.
EOF == 0 - 1

\* Files of up to MaxDim tokens, the token at position j the number j or
\* not a number.
ScanFiles ==
    { [j \in 1 .. d |-> IF j \in B THEN BadToken ELSE j] :
        d \in Dims, B \in SUBSET (1 .. MaxDim) }

ScanLocals ==
    [pos |-> 0, dim |-> Undef, res |-> <<>>, it |-> Undef, beyond |-> {},
     ret |-> Undef]

\* new double[n] in loadVec, new double[n * n] in loadMat.
Capacity == IF prog = "loadVec" THEN input.n ELSE input.n * input.n

\* A scan that steps over a token that is not a number.
fscanf_SkipsToken(file, pos) ==
    IF pos >= Len(file)
    THEN [ret |-> EOF, pos |-> pos, val |-> Undef]
    ELSE IF file[pos + 1] = BadToken
         THEN [ret |-> 0, pos |-> pos + 1, val |-> Undef]
         ELSE [ret |-> 1, pos |-> pos + 1, val |-> file[pos + 1]]

\* fscanf(f, "%lf", p) with pos tokens of the file consumed: EOF at the end
\* of the file; at a number 1, the number stored through p and the token
\* consumed; at any other token 0, nothing stored and nothing consumed.
fscanf(file, pos) ==
    IF pos >= Len(file)
    THEN [ret |-> EOF, pos |-> pos, val |-> Undef]
    ELSE IF file[pos + 1] = BadToken
         THEN [ret |-> 0, pos |-> pos, val |-> Undef]
         ELSE [ret |-> 1, pos |-> pos + 1, val |-> file[pos + 1]]

\* fopen; int dim = 0 in returnSize; res = new double[...], it = res in the
\* loaders.
F_Open(r) ==
    /\ prog \in Scanners /\ pc[r] = "init"
    /\ mem' = [mem EXCEPT ![r] =
                  IF prog = "returnSize"
                  THEN [@ EXCEPT !.dim = 0]
                  ELSE [@ EXCEPT !.res = NewArray(Capacity), !.it = 0]]
    /\ pc' = [pc EXCEPT ![r] = "f_loop"]
    /\ Does(r, <<"fopen">>)
    /\ UNCHANGED <<prog, csize, input, calls, out>>

\* returnSize: fscanf(f, "%lf", &tmp) != EOF, so dim++.
RS_Count(r) ==
    /\ prog = "returnSize" /\ pc[r] = "f_loop"
    /\ mem[r].dim < MaxScans
    /\ LET s == fscanf(input.file, mem[r].pos)
       IN  /\ s.ret # EOF
           /\ mem' = [mem EXCEPT ![r].pos = s.pos, ![r].dim = @ + 1]
    /\ UNCHANGED <<prog, csize, input, pc, calls, out, log>>

\* returnSize: fscanf returned EOF; fclose(f); return dim.
RS_Return(r) ==
    /\ prog = "returnSize" /\ pc[r] = "f_loop"
    /\ fscanf(input.file, mem[r].pos).ret = EOF
    /\ mem' = [mem EXCEPT ![r].ret = mem[r].dim]
    /\ pc' = [pc EXCEPT ![r] = "done"]
    /\ Does(r, <<"fclose", "return">>)
    /\ UNCHANGED <<prog, csize, input, calls, out>>

\* A loader that stores a value only while it is inside res.
L_Store_InsideOnly(r) ==
    /\ prog \in Loaders /\ pc[r] = "f_loop"
    /\ mem[r].it < MaxScans
    /\ LET s  == fscanf(input.file, mem[r].pos)
           it == mem[r].it
       IN  /\ s.ret # EOF
           /\ IF s.ret = 1 /\ it < Capacity
              THEN mem' = [mem EXCEPT ![r].pos = s.pos, ![r].it = it + 1,
                                      ![r].res[it + 1] = s.val]
              ELSE mem' = [mem EXCEPT ![r].pos = s.pos, ![r].it = it + 1]
           /\ pc' = pc
    /\ UNCHANGED <<prog, csize, input, calls, out, log>>

\* loadVec, loadMat: fscanf(f, "%lf", it++) != EOF. A number is stored at
\* *it, inside res or not; a store outside res writes memory that is not
\* part of the array, which goes unnoticed or ends the process.
L_Store(r) ==
    /\ prog \in Loaders /\ pc[r] = "f_loop"
    /\ mem[r].it < MaxScans
    /\ LET s  == fscanf(input.file, mem[r].pos)
           it == mem[r].it
       IN  /\ s.ret # EOF
           /\ IF s.ret = 1
              THEN IF it < Capacity
                   THEN /\ mem' = [mem EXCEPT ![r].pos = s.pos, ![r].it = it + 1,
                                              ![r].res[it + 1] = s.val]
                        /\ pc' = pc
                   ELSE /\ mem' = [mem EXCEPT ![r].pos = s.pos, ![r].it = it + 1,
                                              ![r].beyond = @ \cup {it}]
                        /\ \/ pc' = pc
                           \/ pc' = [pc EXCEPT ![r] = "crashed"]
              ELSE /\ mem' = [mem EXCEPT ![r].pos = s.pos, ![r].it = it + 1]
                   /\ pc' = pc
    /\ UNCHANGED <<prog, csize, input, calls, out, log>>

\* loadVec, loadMat: fscanf returned EOF (it is advanced once more);
\* fclose(f); return res.
L_Return(r) ==
    /\ prog \in Loaders /\ pc[r] = "f_loop"
    /\ fscanf(input.file, mem[r].pos).ret = EOF
    /\ mem' = [mem EXCEPT ![r].it = @ + 1]
    /\ pc' = [pc EXCEPT ![r] = "done"]
    /\ Does(r, <<"fclose", "return">>)
    /\ UNCHANGED <<prog, csize, input, calls, out>>

InitFileScan ==
    /\ prog \in Scanners
    /\ csize = 1
    /\ \E f \in ScanFiles : \E n \in Dims :
          /\ prog = "returnSize" => n = 0
          /\ input = [file |-> f, n |-> n]
    /\ pc = [r \in Ranks |-> "init"]
    /\ mem = [r \in Ranks |-> ScanLocals]
    /\ calls = [r \in Ranks |-> <<>>]
    /\ out = [r \in Ranks |-> <<>>]
    /\ log = [r \in Ranks |-> <<>>]

StepFileScan(r) ==
    \/ F_Open(r)
    \/ RS_Count(r)
    \/ RS_Return(r)
    \/ L_Store(r)
    \/ L_Return(r)

NextFileScan == \E r \in Ranks : StepFileScan(r)

SpecFileScan == InitFileScan /\ [][NextFileScan]_vars

\* The function is one sequential thread of control: it keeps running.
FairSpecFileScan == SpecFileScan /\ WF_vars(NextFileScan)

\* ================================================================ claims
\* The sum of the function f over the finite set S.
RECURSIVE SetSum(_, _)
SetSum(S, f) ==
    IF S = {} THEN 0
    ELSE LET x == CHOOSE y \in S : TRUE
         IN  f[x] + SetSum(S \ {x}, f)

\* Element (k, j) of the matrix in the matrix file and element j of the
\* vector in the vector file, counted from 0.
A(k, j) == input.mfile[k * Len(input.vfile) + j + 1]
X(j) == input.vfile[j + 1]

\* Row k of the product A * x.
ProductRow(k) ==
    LET cols == 0 .. (Len(input.vfile) - 1)
    IN  SetSum(cols, [j \in cols |-> A(k, j) * X(j)])

Divides(p, n) == n % p = 0

\* Rank r has returned from its k-th collective call.
Returned(r, k) ==
    \/ Len(calls[r]) > k
    \/ Len(calls[r]) = k /\ pc[r] \in {"done", "s_looped", "m_computed"}

\* C1: in the matrix-vector program, when csize divides dim >= 1, the vector
\* res rank 0 holds after the gather is the product of the loaded matrix and
\* vector, res[k] = sum over j of A[k][j] * x[j], and that is what it writes.
C1_MatVecProduct ==
    (/\ prog = "matvec"
     /\ Returned(0, 4)
     /\ Len(input.vfile) >= 1
     /\ Divides(csize, Len(input.vfile)))
    => /\ Len(mem[0].res) = Len(input.vfile)
       /\ \A k \in 0 .. (Len(input.vfile) - 1) : mem[0].res[k + 1] = ProductRow(k)
       /\ out[0] = << [what |-> "Result.txt", val |-> mem[0].res] >>

\* The identity matrix, x = <<1, 2, 3, 4>>, two ranks: rank 0 holds <<1, 2, 3, 4>>.
C1_Witness ==
    /\ prog = "matvec" /\ csize = 2 /\ pc[0] = "done"
    /\ input.vfile = <<1, 2, 3, 4>>
    /\ input.mfile = <<1, 0, 0, 0,  0, 1, 0, 0,  0, 0, 1, 0,  0, 0, 0, 1>>
    /\ mem[0].res = <<1, 2, 3, 4>>

\* C2: in the parallel-sum program the value tsum rank 0 holds after the
\* MPI_SUM reduce is 0 + 1 + ... + n = n(n+1)/2, for every n >= 0 and every
\* number of processes, and that is the sum rank 0 prints.
C2_TotalSum ==
    (prog = "sum" /\ Returned(0, 2))
    => /\ mem[0].tsum = (input.n * (input.n + 1)) \div 2
       /\ mem[0].tsum = SetSum(0 .. input.n, [k \in 0 .. input.n |-> k])
       /\ pc[0] = "done" => out[0][1] = [what |-> "sum", val |-> <<input.n, mem[0].tsum>>]

\* n = 5 summed by two ranks (0+2+4, 1+3+5): rank 0 holds 15.
C2_Witness ==
    /\ prog = "sum" /\ csize = 2 /\ input.n = 5
    /\ pc[0] = "done" /\ mem[0].tsum = 15
    /\ calls[0][2].data = <<6>> /\ calls[1][2].data = <<9>>

\* The integers of 0..n that the cyclic plan gives to rank r.
CyclicShare(r) == { k \in 0 .. input.n : k % csize = r }

\* C6: rank r's partial sum is the sum of exactly the integers k of 0..n
\* with k mod csize = r (the loop stops at the first such k above n), so
\* the shares are disjoint, cover 0..n and hold nothing above n.
C6_CyclicPlan ==
    prog = "sum" =>
       \A r \in Ranks :
          Len(calls[r]) >= 2 =>
             /\ mem[r].sum = SetSum(CyclicShare(r), [k \in CyclicShare(r) |-> k])
             /\ calls[r][2].data = <<mem[r].sum>>
             /\ mem[r].i > input.n
             /\ mem[r].i - csize <= input.n
             /\ mem[r].i % csize = r

\* n = 5 on two ranks: rank 1 has added 1 + 3 + 5 and stopped at i = 7.
C6_Witness ==
    /\ prog = "sum" /\ csize = 2 /\ input.n = 5
    /\ Len(calls[1]) >= 2 /\ mem[1].sum = 9 /\ mem[1].i = 7
    /\ Len(calls[0]) >= 2 /\ mem[0].sum = 6 /\ mem[0].i = 6

\* The collective operations rank r has called, in order.
OpsOf(r) == [k \in 1 .. Len(calls[r]) |-> calls[r][k].op]

\* The collective calls of each program, in the order of its source.
Collectives ==
    [timing  |-> <<"barrier", "reduce">>,
     sum     |-> <<"bcast", "reduce", "reduce">>,
     bstruct |-> <<"bcast">>,
     matvec  |-> <<"bcast", "bcast", "scatter", "gather">>]

AllDone == \A r \in Ranks : pc[r] = "done"

\* C3: in each MPI program every rank issues the same sequence of collective
\* calls, each with root 0 and the same element count, whatever its rank:
\* the k-th call of one rank is the same operation as the k-th call of any
\* other, and a rank that has finished has issued them all.
C3_SameCollectives ==
    \A r \in Ranks :
       /\ \A k \in 1 .. Len(calls[r]) :
             /\ calls[r][k].root = 0
             /\ calls[r][k].op = Collectives[prog][k]
             /\ \A q \in Ranks :
                   (q > r /\ k <= Len(calls[q])) =>
                      /\ calls[q][k].op = calls[r][k].op
                      /\ calls[q][k].count = calls[r][k].count
       /\ Len(calls[r]) <= Len(Collectives[prog])
       /\ pc[r] = "done" => OpsOf(r) = Collectives[prog]

\* Two ranks have run the matrix-vector program to its end on a vector of
\* four elements: each has called bcast(1), bcast(4), scatter(8), gather(2).
C3_Witness ==
    /\ prog = "matvec" /\ csize = 2 /\ AllDone
    /\ Len(input.vfile) = 4
    /\ \A r \in Ranks :
          /\ OpsOf(r) = <<"bcast", "bcast", "scatter", "gather">>
          /\ [k \in 1 .. 4 |-> calls[r][k].count] = <<1, 4, 8, 2>>

\* C4: under fair scheduling of the ranks (and with the input read of rank 0
\* returning) every rank of every program passes every collective and
\* reaches MPI_Finalize: no rank stays blocked in a collective.
C4_AllRanksFinish == <>AllDone

\* Rank 0 of the matrix-vector program waits in the gather for rank 1,
\* which has not reached it yet.
C4_Witness ==
    /\ prog = "matvec" /\ csize = 2
    /\ pc[0] = "m_in_gather" /\ ~CanReturn(0)
    /\ Len(calls[1]) < 4

\* Row k of the matrix in the matrix file, and local row i of rank r.
FileRow(k) ==
    LET d == Len(input.vfile)
    IN  [j \in 1 .. d |-> input.mfile[k * d + j]]
LocalRow(r, i) ==
    LET d == Len(input.vfile)
    IN  [j \in 1 .. d |-> mem[r].mat[i * d + j]]

\* The rows of the matrix that rank r multiplies.
RowsOf(r) == (r * mem[r].to) .. ((r + 1) * mem[r].to - 1)

\* C5: when csize divides dim, the scatter gives rank r exactly the rows
\* r*(dim/csize) .. (r+1)*(dim/csize)-1 of the matrix; these row ranges are
\* pairwise disjoint and together are every row 0..dim-1 exactly once.
C5_RowBlocks ==
    (prog = "matvec" /\ Divides(csize, Len(input.vfile))) =>
       LET d  == Len(input.vfile)
           to == d \div csize
       IN  /\ \A r \in Ranks :
                 Returned(r, 3) =>
                    /\ mem[r].to = to
                    /\ Len(mem[r].mat) = to * d
                    /\ \A i \in 0 .. (to - 1) : LocalRow(r, i) = FileRow(r * to + i)
           /\ (\A r \in Ranks : Returned(r, 3)) =>
                 \A k \in 0 .. (d - 1) :
                    Cardinality({ r \in Ranks : k \in RowsOf(r) }) = 1

\* Two ranks, the matrix of the numbers 1..16: rank 1 holds rows 2 and 3.
C5_Witness ==
    /\ prog = "matvec" /\ csize = 2 /\ Len(input.vfile) = 4
    /\ input.mfile = [i \in 1 .. 16 |-> i]
    /\ Returned(0, 3) /\ Returned(1, 3)
    /\ mem[0].mat = <<1, 2, 3, 4, 5, 6, 7, 8>>
    /\ mem[1].mat = <<9, 10, 11, 12, 13, 14, 15, 16>>

\* C7: a scatter followed by a gather of the received blocks is the identity
\* at the root: for N divisible by P, position r*(N/P)+i of the gathered
\* array holds the element rank r held at local position i, and the
\* gathered array is the original one.
C7_ScatterGatherIdentity ==
    (/\ prog = "roundtrip"
     /\ Divides(csize, Len(input.array))
     /\ pc[0] = "done")
    => LET cnt == Len(input.array) \div csize
       IN  /\ mem[0].back = input.array
           /\ \A r \in Ranks : \A i \in 1 .. cnt :
                 mem[0].back[r * cnt + i] = mem[r].recv[i]

\* Two ranks and the array <<1, 2, 3, 4>>: rank 1 held <<3, 4>>, and rank 0
\* has the array back.
C7_Witness ==
    /\ prog = "roundtrip" /\ csize = 2 /\ pc[0] = "done"
    /\ input.array = <<1, 2, 3, 4>>
    /\ mem[1].recv = <<3, 4>>
    /\ mem[0].back = <<1, 2, 3, 4>>

\* C8: once a broadcast from root 0 has returned on a rank, the rank's
\* buffer (n in the parallel sum, dim and vec in matrix-vector, the three
\* fields of s in the struct broadcast) holds what rank 0 held when it
\* issued the call, whatever the rank held before; rank 0's own value is the
\* one it had.
C8_Broadcast ==
    \A r \in Ranks :
       /\ (prog = "sum" /\ Returned(r, 1)) =>
             /\ mem[r].n = calls[0][1].data[1]
             /\ mem[r].n = input.n
       /\ (prog = "matvec" /\ Returned(r, 1)) =>
             /\ mem[r].dim = calls[0][1].data[1]
             /\ mem[r].dim = Len(input.vfile)
       /\ (prog = "matvec" /\ Returned(r, 2)) =>
             /\ mem[r].vec = calls[0][2].data
             /\ mem[r].vec = input.vfile
       /\ (prog = "bstruct" /\ Returned(r, 1)) =>
             \A f \in SDataFields :
                /\ mem[r].s[f] = calls[0][1].data[1][f]
                /\ mem[r].s[f] = input.s[f]

\* Rank 1, which held nothing, holds the struct rank 0 read.
C8_Witness ==
    /\ prog = "bstruct" /\ csize = 2
    /\ input.s = [i1 |-> 1, d1 |-> 0, d2 |-> 1]
    /\ pc[1] = "done"
    /\ mem[1].s = [i1 |-> 1, d1 |-> 0, d2 |-> 1]

\* C9: in the timing program no rank takes its local_start timestamp before
\* every rank has entered the barrier, and a rank that is in the barrier
\* while some rank has not entered it cannot go on.
C9_BarrierBeforeStart ==
    prog = "timing" =>
       \A r \in Ranks :
          /\ mem[r].local_start # Undef =>
                \A q \in Ranks : Entered(q, 1) /\ calls[q][1].op = "barrier"
          /\ (pc[r] = "t_in_barrier" /\ \E q \in Ranks : ~Entered(q, 1)) =>
                ~ENABLED T_Measure(r)

\* Rank 0 has taken its timestamps while rank 1 is still in the barrier,
\* which both have entered.
C9_Witness ==
    /\ prog = "timing" /\ csize = 2
    /\ mem[0].local_start # Undef
    /\ pc[1] = "t_in_barrier"

\* The orders in which the values of the ranks can be assigned to the ranks.
RECURSIVE PermsOf(_)
PermsOf(S) ==
    IF S = {} THEN { <<>> }
    ELSE UNION { { Append(p, x) : p \in PermsOf(S \ {x}) } : x \in S }
Perms == PermsOf(1 .. csize)

\* m is what MPI_MAX makes of the durations d[1] .. d[csize]: one of them,
\* not less than any of them, and the same however they are permuted.
IsMaxOf(m, d) ==
    /\ \E i \in 1 .. csize : m = d[i]
    /\ \A i \in 1 .. csize : m >= d[i]
    /\ \A p \in Perms : Fold("MPI_MAX", [i \in 1 .. csize |-> d[p[i]]], csize) = m

\* C10: the value rank 0 holds after the MPI_MAX reduce (elapsed in the
\* timing program, max_duration in the parallel sum) is the maximum of the
\* durations of the ranks.
C10_MaxReduce ==
    /\ (prog = "timing" /\ Returned(0, 2)) =>
          IsMaxOf(mem[0].elapsed, [i \in 1 .. csize |-> mem[i - 1].local_elapsed])
    /\ (prog = "sum" /\ Returned(0, 3)) =>
          IsMaxOf(mem[0].max_duration, [i \in 1 .. csize |-> mem[i - 1].duration])

\* Two ranks with durations 1 and 2: rank 0 reports 2.
C10_Witness ==
    /\ prog = "timing" /\ csize = 2 /\ pc[0] = "done"
    /\ mem[0].local_elapsed = 1 /\ mem[1].local_elapsed = 2
    /\ mem[0].elapsed = 2

\* s is an initial part of the sequence t.
IsPrefix(s, t) == Len(s) <= Len(t) /\ s = SubSeq(t, 1, Len(s))

\* The steps of the timing program in the order of its source, for rank r.
TimingSteps(r) ==
    <<"MPI_Init", "MPI_Barrier", "local_start", "workload", "local_finish",
      "MPI_Reduce">>
    \o (IF r = 0 THEN <<"report">> ELSE <<>>)
    \o <<"MPI_Finalize">>

\* C11: every rank of the timing program goes through barrier, start
\* timestamp, workload, stop timestamp, max-reduce in this order, each once;
\* the stop timestamp is not before the start one and the duration reduced
\* is their difference; only rank 0 reports the maximum, once the reduce has
\* returned there, which needs every rank to have entered it.
C11_TimingPhases ==
    prog = "timing" =>
       \A r \in Ranks :
          /\ IsPrefix(log[r], TimingSteps(r))
          /\ pc[r] = "done" <=> log[r] = TimingSteps(r)
          /\ pc[r] = "init" <=> log[r] = <<>>
          /\ pc[r] = "t_in_barrier" <=> log[r] = SubSeq(TimingSteps(r), 1, 2)
          /\ pc[r] = "t_in_reduce" <=> log[r] = SubSeq(TimingSteps(r), 1, 6)
          /\ Len(log[r]) >= 6 =>
                /\ Entered(r, 2)
                /\ mem[r].local_start # Undef
                /\ mem[r].local_finish >= mem[r].local_start
                /\ mem[r].local_elapsed = mem[r].local_finish - mem[r].local_start
                /\ calls[r][2].data = <<mem[r].local_elapsed>>
          /\ Len(log[r]) < 6 => mem[r] = TimingLocals
          /\ (\E i \in 1 .. Len(out[r]) : out[r][i].what = "max") <=>
                (r = 0 /\ pc[r] = "done")
          /\ (r = 0 /\ pc[r] = "done") =>
                /\ \A q \in Ranks : Entered(q, 2)
                /\ out[r] = << [what |-> "local", val |-> <<mem[r].local_elapsed>>],
                               [what |-> "max", val |-> <<mem[r].elapsed>>] >>
          /\ r # 0 => mem[r].elapsed = Undef

\* Both ranks have finished: rank 0 went through all eight steps, rank 1
\* through the same without the report.
C11_Witness ==
    /\ prog = "timing" /\ csize = 2 /\ AllDone
    /\ log[0] = <<"MPI_Init", "MPI_Barrier", "local_start", "workload",
                  "local_finish", "MPI_Reduce", "report", "MPI_Finalize">>
    /\ log[1] = <<"MPI_Init", "MPI_Barrier", "local_start", "workload",
                  "local_finish", "MPI_Reduce", "MPI_Finalize">>
    /\ mem[1].local_start = 1 /\ mem[1].local_finish = 2

Emitted(r, what) == Cardinality({ i \in 1 .. Len(out[r]) : out[r][i].what = what })

\* The outputs that show an aggregate, and the statements that read one.
AggregateOutputs == {"sum", "max", "Result.txt"}
AggregateReads == {"report", "logRes"}

\* C14: the receive variables of the reduces and of the gather (tsum,
\* max_duration, elapsed, res) are read and emitted by rank 0 only, after the
\* reduce or gather has returned there; a rank other than 0 never reads,
\* prints or receives them; rank 0 emits each result exactly once, what it
\* emits is the value received, and nothing is emitted before the end.
C14_AggregatesAtRoot ==
    \A r \in Ranks :
       /\ r # 0 =>
             /\ \A w \in AggregateOutputs : Emitted(r, w) = 0
             /\ \A i \in 1 .. Len(log[r]) : log[r][i] \notin AggregateReads
             /\ prog = "sum" => mem[r].tsum = Undef /\ mem[r].max_duration = Undef
             /\ prog = "timing" => mem[r].elapsed = Undef
             /\ prog = "matvec" => mem[r].res = <<>>
       /\ (r = 0 /\ pc[r] # "done") =>
             /\ \A w \in AggregateOutputs : Emitted(r, w) = 0
             /\ \A i \in 1 .. Len(log[r]) : log[r][i] \notin AggregateReads
       /\ (r = 0 /\ pc[r] = "done") =>
             /\ prog = "sum" =>
                   /\ Returned(0, 2) /\ Returned(0, 3)
                   /\ \A q \in Ranks : Entered(q, 3)
                   /\ Emitted(r, "sum") = 1 /\ Emitted(r, "max") = 1
                   /\ out[r] = << [what |-> "sum", val |-> <<mem[r].n, mem[r].tsum>>],
                                  [what |-> "max", val |-> <<mem[r].max_duration>>] >>
             /\ prog = "timing" =>
                   /\ Returned(0, 2)
                   /\ \A q \in Ranks : Entered(q, 2)
                   /\ Emitted(r, "max") = 1
                   /\ out[r][Len(out[r])] = [what |-> "max", val |-> <<mem[r].elapsed>>]
             /\ prog = "matvec" =>
                   /\ Returned(0, 4)
                   /\ \A q \in Ranks : Entered(q, 4)
                   /\ Emitted(r, "Result.txt") = 1
                   /\ Len(out[r]) = 1
                   /\ \A i \in 1 .. Len(mem[r].res) :
                         mem[r].res[i] # Undef => out[r][1].val[i] = mem[r].res[i]

\* The parallel sum of n = 4 on two ranks has ended: rank 0 printed the sum
\* 10 and the maximal duration once each, rank 1 printed nothing and its
\* tsum was never set.
C14_Witness ==
    /\ prog = "sum" /\ csize = 2 /\ input.n = 4 /\ AllDone
    /\ out[0] = << [what |-> "sum", val |-> <<4, 10>>],
                   [what |-> "max", val |-> <<2>>] >>
    /\ out[1] = <<>>
    /\ mem[1].tsum = Undef /\ mem[1].max_duration = Undef

\* The step in which rank r runs its local compute: the summation loop
\* after the broadcast, or the dot products after the scatter.
ComputeStep(r) ==
    \/ pc[r] = "s_in_bcast" /\ pc'[r] = "s_looped"
    \/ pc[r] = "m_in_scatter" /\ pc'[r] = "m_computed"

\* The local variables the compute step of each program assigns (with the
\* buffer the returning broadcast or scatter fills).
ComputeWrites ==
    IF prog = "sum" THEN {"n", "start_time", "step", "i", "sum"}
                    ELSE {"mat", "to", "lres"}

\* C15: the local compute step of rank r issues no collective call, emits
\* nothing, and assigns only rank r's own loop variables: the memory,
\* position, calls and output of every other rank, the input, and on rank 0
\* the full matrix tmat and the vector stay as they were.
C15_LocalComputeIsolated ==
    [][\A r \in Ranks :
          ComputeStep(r) =>
             /\ calls' = calls
             /\ out' = out
             /\ input' = input
             /\ \A q \in Ranks \ {r} :
                   /\ mem'[q] = mem[q]
                   /\ pc'[q] = pc[q]
                   /\ log'[q] = log[q]
             /\ \A f \in DOMAIN mem[r] :
                   f \notin ComputeWrites => mem'[r][f] = mem[r][f]
             /\ prog = "matvec" =>
                   /\ mem'[0].tmat = mem[0].tmat
                   /\ mem'[r].vec = mem[r].vec
                   /\ mem'[r].lres = LocalProduct(mem'[r].mat, mem[r].vec,
                                                  mem[r].dim, mem[r].dim \div csize)]_vars

\* Rank 1 has computed its two rows <<110, 150>> while rank 0, still in the
\* scatter, holds the full matrix and has computed nothing.
C15_Witness ==
    /\ prog = "matvec" /\ csize = 2
    /\ input.vfile = <<1, 2, 3, 4>>
    /\ pc[1] = "m_computed" /\ mem[1].lres = <<110, 150>>
    /\ pc[0] = "m_in_scatter" /\ mem[0].lres = <<>>
    /\ mem[0].tmat = [i \in 1 .. 16 |-> i]

\* The product A * x of the matrix and the vector in the input files.
Product == [k \in 1 .. Len(input.vfile) |-> ProductRow(k - 1)]

\* C16 as stated: when csize does not divide dim, the matrix-vector program
\* stops with a partition error before any collective call: no rank enters
\* a broadcast, scatter or gather, and nothing is written.
C16_PartitionErrorFirst ==
    (prog = "matvec" /\ ~Divides(csize, Len(input.vfile))) =>
       \A r \in Ranks : calls[r] = <<>> /\ out[r] = <<>>

C18_NoScatterOfPartialMatrix ==
    (prog = "matvec" /\ Len(input.mfile) < Len(input.vfile) * Len(input.vfile)) =>
       /\ \A k \in 1 .. Len(calls[0]) : calls[0][k].op # "scatter"
       /\ \A r \in Ranks : out[r] = <<>>

LinesOf(what) == { i \in 1 .. Len(out[0]) : out[0][i].what = what }

\* C21: in the OpenMP barrier program no "Printf 2" line is printed before
\* every thread of the team has printed its "Printf 1" line; each thread
\* prints each line once; and the order among the Printf 1 lines and among
\* the Printf 2 lines is free: a thread that has not printed its line yet
\* can print it next, whatever the others have done (before the barrier for
\* Printf 1, once all have arrived for Printf 2).
C21_BarrierOrdersPrintfs ==
    prog = "ompbarrier" =>
       /\ \A i \in LinesOf("Printf 1") : \A j \in LinesOf("Printf 2") : i < j
       /\ LinesOf("Printf 2") # {} =>
             { out[0][i].val[1] : i \in LinesOf("Printf 1") } = Ranks
       /\ \A i, j \in 1 .. Len(out[0]) : out[0][i] = out[0][j] => i = j
       /\ \A t \in Ranks :
             /\ pc[t] = "init" => ENABLED OB_Printf1(t)
             /\ (pc[t] = "b_at_barrier" /\ Cardinality(LinesOf("Printf 1")) < csize)
                   => ~ENABLED OB_Printf2(t)
             /\ (pc[t] = "b_at_barrier" /\ Cardinality(LinesOf("Printf 1")) = csize)
                   => ENABLED OB_Printf2(t)

\* Three threads: the Printf 1 lines came out in the order 2, 0, 1, then the
\* Printf 2 lines in the order 1, 2, 0.
C21_Witness ==
    /\ prog = "ompbarrier" /\ csize = 3
    /\ [i \in 1 .. Len(out[0]) |-> out[0][i].what] =
          <<"Printf 1", "Printf 1", "Printf 1", "Printf 2", "Printf 2", "Printf 2">>
    /\ [i \in 1 .. Len(out[0]) |-> out[0][i].val[1]] = <<2, 0, 1, 1, 2, 0>>

\* 1 + 2 + ... + n.
Gauss(n) == (n * (n + 1)) \div 2

\* Every thread of the team has finished the current loop.
LoopOver == \A th \in Ranks : pc[th] \in {"o_joined", "o_serial", "o_idle", "done"}

\* C22: in the OpenMP summations, for every n >= 0, team size and handing
\* out of the iterations, no iteration is executed by two threads, every
\* thread's private sum is the sum of the iterations it executed, and when
\* the loop is over the iterations executed are exactly 1..n and sum is
\* 1 + 2 + ... + n; so every loop (static, dynamic, guided, runtime, default)
\* prints that same value.
C22_OmpSum ==
    prog \in DOMAIN Loops =>
       /\ \A th, q \in Ranks : th # q => mem[th].iters \cap mem[q].iters = {}
       /\ \A th \in Ranks :
             /\ mem[th].iters \subseteq 1 .. input.n
             /\ pc[th] # "init" => mem[th].sum = SumOf(mem[th].iters)
       /\ (LoopOver /\ pc[0] # "init") =>
             /\ UNION { mem[th].iters : th \in Ranks } = 1 .. input.n
             /\ mem[Shared].sum = Gauss(input.n)
             /\ mem[Shared].sum = SumOf(1 .. input.n)
       /\ \A i \in 1 .. Len(out[0]) :
             /\ out[0][i].what = Loops[prog][i]
             /\ out[0][i].val = <<Gauss(input.n)>>
       /\ pc[0] = "done" => Len(out[0]) = Len(Loops[prog])

\* The schedule demonstration on n = 5 with three threads has printed 15
\* four times; in the last loop (OMP_SCHEDULE = dynamic, chunks of 2) thread
\* 2 ran 1 and 2, thread 0 ran 3 and 4, thread 1 ran 5.
C22_Witness ==
    /\ prog = "ompsched" /\ csize = 3 /\ pc[0] = "done"
    /\ input = [n |-> 5, schedule |-> "dynamic"]
    /\ [i \in 1 .. 4 |-> out[0][i].val[1]] = <<15, 15, 15, 15>>
    /\ mem[2].iters = {1, 2} /\ mem[0].iters = {3, 4} /\ mem[1].iters = {5}

\* The threads whose private copy has been combined into sum.
Combined == { th \in Ranks : pc[th] \in {"o_joined", "o_serial", "o_idle", "done"} }

\* What a step of the OpenMP summations may do to the private copies and to
\* the shared sum.
ReductionStep ==
    prog \in DOMAIN Loops =>
       /\ \A th \in Ranks :
             (pc[th] = "o_work" /\ pc'[th] = "o_work" /\ mem'[th] # mem[th]) =>
                /\ mem'[Shared].sum = mem[Shared].sum
                /\ \A q \in Ranks \ {th} : mem'[q] = mem[q]
                /\ mem'[th].sum =
                      mem[th].sum + SumOf(mem'[th].iters \ mem[th].iters)
       /\ (pc[0] # "o_work" /\ pc'[0] = "o_work") =>
             /\ mem'[Shared].sum = 0
             /\ \A th \in Ranks : mem'[th].sum = 0 /\ pc'[th] = "o_work"
       /\ (mem'[Shared].sum # mem[Shared].sum /\ pc[0] \notin {"init", "o_serial"}) =>
             \E th \in Ranks :
                /\ pc[th] = "o_work" /\ pc'[th] = "o_joined"
                /\ \A q \in Ranks \ {th} : pc'[q] = pc[q]
                /\ \A q \in Ranks : mem'[q] = mem[q]
                /\ mem'[Shared].sum = mem[Shared].sum + mem[th].sum

\* C23: the OpenMP reduction is race-free. A thread working in the loop
\* changes only its own private copy of sum, which starts at 0 when the
\* region opens, and adds to it exactly the iterations it ran; the shared sum
\* changes only when the master resets it before the loop or when one
\* thread's private copy is added at the end of that thread's work, one
\* thread per step; and no update is lost: at every moment the shared sum is
\* the total of the private copies combined so far.
C23_RaceFree ==
    /\ [][ReductionStep]_vars
    /\ [](prog \in DOMAIN Loops /\ pc[0] # "init" =>
            mem[Shared].sum = SetSum(Combined, [th \in Combined |-> mem[th].sum]))

\* The parallel sum of 1..5 on two threads under a dynamic schedule: thread 0
\* ran 1, 2 and 5 and its 8 has been added to sum; thread 1 ran 3 and 4 and
\* its 7 is still private.
C23_Witness ==
    /\ prog = "ompsum" /\ csize = 2
    /\ input = [n |-> 5, schedule |-> "dynamic"]
    /\ pc[0] = "o_joined" /\ pc[1] = "o_work"
    /\ mem[0].sum = 8 /\ mem[1].sum = 7 /\ mem[Shared].sum = 8

\* The positions of the statement x in what rank r has executed.
At(r, x) == { i \in 1 .. Len(log[r]) : log[r][i] = x }

\* Every execution of x by rank r comes after one of y.
After(r, x, y) == \A i \in At(r, x) : \E j \in At(r, y) : j < i

\* C24: in the struct broadcast, on every rank, data_t is created, then
\* committed, then used by MPI_Bcast, then freed, and MPI_Finalize comes
\* after the free; each of these is executed at most once; while the rank is
\* in the broadcast the type is committed, and it is freed only when the
\* broadcast has returned.
C24_DatatypeLifecycle ==
    prog = "bstruct" =>
       \A r \in Ranks :
          /\ After(r, "MPI_Type_commit", "MPI_Type_create_struct")
          /\ After(r, "MPI_Bcast", "MPI_Type_commit")
          /\ After(r, "MPI_Type_free", "MPI_Bcast")
          /\ After(r, "MPI_Finalize", "MPI_Type_free")
          /\ \A x \in {"MPI_Type_create_struct", "MPI_Type_commit", "MPI_Bcast",
                        "MPI_Type_free", "MPI_Finalize"} : Cardinality(At(r, x)) <= 1
          /\ At(r, "MPI_Bcast") # {} <=> Len(calls[r]) = 1
          /\ pc[r] = "b_in_bcast" => mem[r].data_t = "committed"
          /\ mem[r].data_t = "committed" <=> (At(r, "MPI_Type_commit") # {} /\ At(r, "MPI_Type_free") = {})
          /\ mem[r].data_t = "freed" <=> At(r, "MPI_Type_free") # {}
          /\ mem[r].data_t = "freed" => Returned(r, 1)
          /\ pc[r] = "done" => (At(r, "MPI_Finalize") # {} /\ mem[r].data_t = "freed")

\* Two ranks: rank 1 is in the broadcast with data_t committed, rank 0 has
\* returned from it, freed its data_t and finalized.
C24_Witness ==
    /\ prog = "bstruct" /\ csize = 2
    /\ pc[1] = "b_in_bcast" /\ mem[1].data_t = "committed"
    /\ pc[0] = "done" /\ mem[0].data_t = "freed"
    /\ log[0] = <<"MPI_Init", "MPI_Type_create_struct", "MPI_Type_commit", "scanf",
                  "MPI_Bcast", "printf", "MPI_Type_free", "MPI_Finalize">>

\* C25: on every rank of every MPI program the first statement executed is
\* MPI_Init, so every collective and every MPI_Wtime comes after it;
\* MPI_Init and MPI_Finalize are executed at most once each; MPI_Finalize,
\* once executed, is the last statement of the rank, which then takes no
\* further step; and a rank that has come to its end has executed both.
C25_InitFirstFinalizeLast ==
    \A r \in Ranks :
       /\ log[r] # <<>> => log[r][1] = "MPI_Init"
       /\ calls[r] # <<>> => At(r, "MPI_Init") # {}
       /\ Cardinality(At(r, "MPI_Init")) <= 1
       /\ Cardinality(At(r, "MPI_Finalize")) <= 1
       /\ At(r, "MPI_Finalize") \subseteq {Len(log[r])}
       /\ pc[r] = "done" <=> At(r, "MPI_Finalize") # {}
       /\ pc[r] = "done" => (At(r, "MPI_Init") = {1} /\ ~ENABLED Step(r))

\* The parallel sum on two ranks: rank 1 has finalized after its two
\* reduces, rank 0 is still in the max reduce.
C25_Witness ==
    /\ prog = "sum" /\ csize = 2
    /\ log[1] = <<"MPI_Init", "MPI_Bcast", "start_time", "loop", "MPI_Reduce_SUM",
                  "end_time", "MPI_Reduce_MAX", "MPI_Finalize">>
    /\ pc[0] = "s_in_max" /\ log[0][1] = "MPI_Init"

\* Per program with an input value: the statement that reads the input, the
\* broadcast that distributes it, and the statements that use it.
InputRead == [sum |-> "getInput", matvec |-> "returnSize", bstruct |-> "scanf"]
InputBcast == [sum |-> "MPI_Bcast", matvec |-> "MPI_Bcast_dim", bstruct |-> "MPI_Bcast"]
InputUses ==
    [sum     |-> {"loop"},
     matvec  |-> {"loadVec", "new_vec", "MPI_Bcast_vec", "loadMat", "MPI_Scatter",
                  "compute", "MPI_Gather", "logRes"},
     bstruct |-> {"printf"}]

\* The input value of the program as rank r holds it: n, dim, or s.
InputValue(r) ==
    CASE prog = "sum"     -> <<mem[r].n>>
      [] prog = "matvec"  -> <<mem[r].dim>>
      [] prog = "bstruct" -> <<mem[r].s.i1, mem[r].s.d1, mem[r].s.d2>>

\* Rank r has a value in every component of the input value.
InputDefined(r) == \A i \in DOMAIN InputValue(r) : InputValue(r)[i] # Undef

C27_MsizeIsWholeRows ==
    prog = "matvec" =>
       \A r \in Ranks :
          mem[r].msize # Undef =>
             /\ mem[r].msize = mem[r].dim * (mem[r].dim \div csize)
             /\ Len(mem[r].mat) = mem[r].dim * (mem[r].dim \div csize)
             /\ \A k \in 1 .. Len(calls[r]) :
                   calls[r][k].op = "scatter" =>
                      calls[r][k].count = mem[r].dim * (mem[r].dim \div csize)

\* The calls of the operation op that rank r has issued.
CallsOf(r, op) == { k \in 1 .. Len(calls[r]) : calls[r][k].op = op }

\* C28: buffer bounds of the matrix-vector program, csize dividing dim or
\* not. Every index i*dim + j (i < to, j < dim) the compute loop reads lies
\* in mat, j in vec and i in lres; the scatter takes csize * msize elements,
\* no more than the dim*dim of rank 0's tmat, and stores msize elements in
\* each mat of msize elements; the gather sends the `to` elements of lres and
\* stores csize * to elements, no more than the dim of res.
C28_BufferBounds ==
    prog = "matvec" =>
       \A r \in Ranks :
          /\ mem[r].to # Undef =>
                /\ \A i \in 0 .. (mem[r].to - 1) : \A j \in 0 .. (mem[r].dim - 1) :
                      /\ i * mem[r].dim + j < mem[r].msize
                      /\ i * mem[r].dim + j < Len(mem[r].mat)
                      /\ j < Len(mem[r].vec)
                      /\ i < Len(mem[r].lres)
                /\ mem[r].to = mem[r].dim \div csize
          /\ mem[r].msize # Undef => Len(mem[r].mat) = mem[r].msize
          /\ \A k \in CallsOf(r, "scatter") :
                /\ calls[r][k].count = mem[r].msize
                /\ calls[r][k].count <= Len(mem[r].mat)
                /\ r = 0 =>
                      /\ Len(calls[r][k].data) = mem[r].dim * mem[r].dim
                      /\ csize * calls[r][k].count <= Len(calls[r][k].data)
          /\ \A k \in CallsOf(r, "gather") :
                /\ calls[r][k].count = mem[r].to
                /\ calls[r][k].count <= Len(calls[r][k].data)
                /\ r = 0 =>
                      /\ Len(mem[r].res) = mem[r].dim
                      /\ csize * calls[r][k].count <= Len(mem[r].res)

\* dim = 3 on two ranks: rank 0 is in the gather with blocks of one
\* element and a res of three; every rank got a mat of four elements, of
\* which it read the first three; eight of the nine elements of tmat were
\* scattered.
C28_Witness ==
    /\ prog = "matvec" /\ csize = 2 /\ Len(input.vfile) = 3
    /\ pc[0] = "m_in_gather" /\ pc[1] = "m_in_gather"
    /\ Len(mem[0].res) = 3 /\ calls[0][4].op = "gather" /\ calls[0][4].count = 1
    /\ Len(mem[1].mat) = 4 /\ mem[1].to = 1
    /\ calls[0][3].op = "scatter" /\ calls[0][3].count = 4 /\ Len(calls[0][3].data) = 9

\* The number of tokens before the first token of the file that is not a
\* number.
NumericPrefix(file) ==
    Cardinality({ i \in 1 .. Len(file) : \A j \in 1 .. i : file[j] # BadToken })

\* The state of returnSize, at every moment.
ReturnSizeInv ==
    prog = "returnSize" =>
       LET file == input.file
           v    == mem[0]
       IN  /\ pc[0] = "done" =>
                 (~HasBadToken(file) /\ v.ret = Len(file) /\ v.ret = returnSize(file))
           /\ (pc[0] = "f_loop" /\ ~HasBadToken(file)) =>
                 (v.dim = v.pos /\ v.pos <= Len(file))
           /\ (pc[0] = "f_loop" /\ HasBadToken(file)) =>
                 /\ v.pos <= NumericPrefix(file)
                 /\ v.dim >= v.pos
                 /\ ~ENABLED RS_Return(0)
                 /\ ENABLED RS_Count(0) \/ v.dim = MaxScans

\* A scan of returnSize at a token that is not a number.
ScanAtBadToken ==
    (/\ prog = "returnSize" /\ pc[0] = "f_loop"
     /\ mem[0].pos = NumericPrefix(input.file)
     /\ HasBadToken(input.file)
     /\ mem'[0] # mem[0])
    => (/\ mem'[0].pos = mem[0].pos
        /\ mem'[0].dim = mem[0].dim + 1
        /\ pc'[0] = "f_loop")

Next1(r, x, y) ==
    \A i \in At(r, x) : i < Len(log[r]) => log[r][i + 1] = y

\* C31: in the parallel sum a rank has its end timestamp exactly when it
\* has entered the max reduce, which is after its sum reduce has returned
\* (on rank 0: after every rank has entered the sum reduce); the statements
\* run in the order start_time, loop, sum reduce, end_time, max reduce;
\* duration = end_time - start_time >= 0 is what the rank hands to the max
\* reduce; and the max reduce is the third and last collective of the rank,
\* followed only by the report and MPI_Finalize.
C31_EndTimeBetweenReduces ==
    prog = "sum" =>
       \A r \in Ranks :
          /\ mem[r].end_time # Undef <=> Len(calls[r]) = 3
          /\ mem[r].end_time # Undef <=> At(r, "end_time") # {}
          /\ mem[r].end_time # Undef =>
                /\ Returned(r, 2)
                /\ r = 0 => \A q \in Ranks : Entered(q, 2)
                /\ mem[r].start_time # Undef
                /\ mem[r].end_time >= mem[r].start_time
                /\ mem[r].duration = mem[r].end_time - mem[r].start_time
                /\ calls[r][3] = Call("reduce", 0, 1, <<mem[r].duration>>)
          /\ After(r, "loop", "start_time")
          /\ After(r, "MPI_Reduce_SUM", "loop")
          /\ After(r, "end_time", "MPI_Reduce_SUM")
          /\ After(r, "MPI_Reduce_MAX", "end_time")
          /\ Next1(r, "MPI_Reduce_SUM", "end_time")
          /\ Next1(r, "end_time", "MPI_Reduce_MAX")
          /\ Next1(r, "MPI_Reduce_MAX", IF r = 0 THEN "report" ELSE "MPI_Finalize")
          /\ \A x \in {"MPI_Reduce_SUM", "end_time", "MPI_Reduce_MAX"} :
                Cardinality(At(r, x)) <= 1
          /\ Len(calls[r]) <= 3
          /\ Len(calls[r]) >= 2 =>
                calls[r][2] = Call("reduce", 0, 1, <<mem[r].sum>>)
          /\ pc[r] = "done" => (Len(calls[r]) = 3 /\ At(r, "MPI_Reduce_MAX") # {})

\* Two ranks summing 0..5: rank 1 (1 + 3 + 5 = 9) has returned from the sum
\* reduce, taken end_time = 2 after start_time = 1 and entered the max
\* reduce with duration 1, while rank 0 has not called the sum reduce yet.
C31_Witness ==
    /\ prog = "sum" /\ csize = 2 /\ input.n = 5
    /\ pc[1] = "s_in_max" /\ mem[1].start_time = 1 /\ mem[1].end_time = 2
    /\ calls[1][2].data = <<9>> /\ calls[1][3].data = <<1>>
    /\ pc[0] = "s_looped" /\ Len(calls[0]) = 1

====
